---- MODULE Spec2Model ----
(***************************************************************************)
(* A model of scripts/fetch_sth_realized_price.py: the fetch of the metric *)
(* CSV from the candidate URLs, the text normaliser, the column resolver,  *)
(* the date/numeric coercion, the trailing moving average and the write of *)
(* the JSON file.                                                          *)
(*                                                                         *)
(* Texts are sequences of one-character strings.  A table is a record      *)
(* [columns, rows]: the header names and, per row, one raw cell per        *)
(* column.  A float is a record [na, num, den] (num/den, or NaN/None when  *)
(* na), a datetime a record [nat, day, tick] (calendar day and time within *)
(* the day, or NaT when nat).                                              *)
(***************************************************************************)
EXTENDS Integers, Sequences, FiniteSets, TLC

VARIABLES
    pc,         \* the position of main()
    api_key,    \* os.environ.get("BMP_API_KEY"): TRUE when set and non-empty
    file,       \* the content of OUT_PATH
    prior,      \* history: the content of OUT_PATH when the run started
    url_i,      \* _fetch_csv: the index into URLS_TO_TRY of the loop
    last_err,   \* _fetch_csv: last_err
    attempts,   \* history: the GET requests issued, in order
    raw_text,   \* main: raw_text
    orig,       \* history: the plain CSV text the response encodes
    cleaned,    \* main: cleaned
    csv,        \* history: the table pd.read_csv returned
    df,         \* main: df
    date_col,   \* main: date_col
    price_col,  \* main: price_col
    sth_col,    \* main: sth_col
    out,        \* main: out
    error       \* the RuntimeError that ended the run

vars == <<pc, api_key, file, prior, url_i, last_err, attempts, raw_text, orig,
          cleaned, csv, df, date_col, price_col, sth_col, out, error>>

----------------------------------------------------------------------------
(* Bounds of the model. *)

\* The longest plain CSV text fed to the normaliser.
MaxLen == 3
\* The most header columns of a table given to the column resolver.
MaxCols == 3
\* The most data rows of a table given to the coercion and derivation stage.
MaxRows == 3
\* The rolling window and min_periods of line 116, which are 200 in the
\* source, scaled down so that a window fills and slides within MaxRows rows.
Window == 2

----------------------------------------------------------------------------
(* Characters and texts. *)

DQ == "\""
SQ == "'"
BS == "\\"
LF == "\n"
CR == "\r"
SP == " "

\* The characters str.strip() removes, among those of the model.
Whitespace == {SP, LF, CR}

Chars == {"a", "n", "r", DQ, SQ, BS, LF, CR, SP}

RECURSIVE lstrip(_)
lstrip(s) ==
    IF s # <<>> /\ Head(s) \in Whitespace THEN lstrip(Tail(s)) ELSE s

RECURSIVE rstrip(_)
rstrip(s) ==
    IF s # <<>> /\ s[Len(s)] \in Whitespace
    THEN rstrip(SubSeq(s, 1, Len(s) - 1))
    ELSE s

\* str.strip()
strip(s) == rstrip(lstrip(s))

\* str.startswith / str.endswith with a one-character argument
startswith(s, c) == Len(s) >= 1 /\ s[1] = c
endswith(s, c) == Len(s) >= 1 /\ s[Len(s)] = c

\* str.replace(a + b, c) for a two-character pattern: leftmost,
\* non-overlapping occurrences, left to right.
RECURSIVE replace(_, _, _, _)
replace(s, a, b, c) ==
    IF Len(s) < 2 THEN s
    ELSE IF s[1] = a /\ s[2] = b
         THEN <<c>> \o replace(SubSeq(s, 3, Len(s)), a, b, c)
         ELSE <<s[1]>> \o replace(Tail(s), a, b, c)

\* Line 27: the text starts and ends with the same quote character.
IsQuoted(txt) ==
    \/ startswith(txt, DQ) /\ endswith(txt, DQ)
    \/ startswith(txt, SQ) /\ endswith(txt, SQ)

\* Lines 27-28: txt[1:-1] when quoted.
StripOuterQuotes(txt) ==
    IF IsQuoted(txt) THEN SubSeq(txt, 2, Len(txt) - 1) ELSE txt

\* Line 30.
Unescape(txt) == replace(replace(txt, BS, "n", LF), BS, "r", CR)

\* A bug of _clean_csv_text: the outer quotes are left in place.
CleanKeepingQuotes(raw) ==
    LET txt == strip(raw) IN
    IF txt = <<>> THEN <<>> ELSE strip(Unescape(txt))

_clean_csv_text(raw) ==
    LET txt == strip(raw) IN
    IF txt = <<>> THEN <<>> ELSE strip(Unescape(StripOuterQuotes(txt)))

----------------------------------------------------------------------------
(* _fetch_csv *)

URLS_TO_TRY ==
    << "https://api.bitcoinmagazinepro.com/v1/metrics/sth-realized-price",
       "https://api.bitcoinmagazinepro.com/metrics/sth-realized-price" >>

\* last_err = None
NoError == [url |-> "", kind |-> "none"]

\* What line 45 (a network exception) or line 49 (raise_for_status on a
\* non-success status) may raise.
FailureKinds == {"http_status", "network"}

\* The exception caught at line 51 for the request to url.
Failure(url, kind) == [url |-> url, kind |-> kind]

\* A bug line 52 could have: only the first failure is remembered.
KeepFirstErr(old, e) == IF old = NoError THEN e ELSE old

\* Line 52: last_err = e
RecordErr(old, e) == e

\* The response bodies of the pipeline's runs: empty, blank, a quoted empty
\* string, plain CSV, and CSV sent as a quoted string with literal \n.
ResponseTexts ==
    { <<>>, <<SP, LF>>, <<DQ, DQ>>, <<"a", LF, "a">>,
      <<DQ, "a", BS, "n", "a", DQ>> }

----------------------------------------------------------------------------
(* Column resolution, lines 76-100 *)

\* pick's None; `not date_col` is true of None and of the empty name alike.
NoColumn == ""

\* str.strip() on the column names of the model.
str_strip(c) == IF c = " date" THEN "date" ELSE c

\* str.lower() on the column names of the model.
str_lower(c) ==
    CASE c \in {"Date", "DATE"} -> "date"
      [] c = "Price" -> "price"
      [] c = "STH_Realized_Price" -> "sth_realized_price"
      [] c = "Unnamed: 0" -> "unnamed: 0"
      [] OTHER -> c

\* A bug line 76 could have: the key keeps the header's letter case.
NameKeyCaseSensitive(c) == str_strip(c)

\* Line 76: str(c).strip().lower()
NameKey(c) == str_lower(str_strip(c))

\* Line 76: the dict comprehension; a later column replaces an earlier one
\* that has the same key.
cols_lower(columns) ==
    [k \in {NameKey(columns[i]) : i \in DOMAIN columns} |->
        LET last == CHOOSE i \in DOMAIN columns :
                        /\ NameKey(columns[i]) = k
                        /\ \A j \in DOMAIN columns :
                              NameKey(columns[j]) = k => j <= i
        IN columns[last]]

\* Lines 78-82.
RECURSIVE pick(_, _)
pick(cols, names) ==
    IF names = <<>> THEN NoColumn
    ELSE IF Head(names) \in DOMAIN cols THEN cols[Head(names)]
         ELSE pick(cols, Tail(names))

DateNames == <<"date", "time", "timestamp">>
PriceNames == <<"price", "btc_price", "btcprice", "usd_price", "price_usd">>
SthNames ==
    << "sth_realized_price", "sthrealizedprice", "sth_realized",
       "realized_price", "realizedprice", "value" >>

\* An earlier behaviour of line 95: the price column is required too.
MissingAnyColumn(d, p, s) == d = NoColumn \/ p = NoColumn \/ s = NoColumn

\* Line 95: not date_col or not sth_col
MissingRequired(d, p, s) == d = NoColumn \/ s = NoColumn

----------------------------------------------------------------------------
(* Values: floats, datetimes, cells *)

\* A float num/den.
Float(n) == [na |-> FALSE, num |-> n, den |-> 1]
\* pandas' missing float, and Python's None (JSON null).
NaN == [na |-> TRUE, num |-> 0, den |-> 1]
None == [na |-> TRUE, num |-> 0, den |-> 0]
\* pd.isna / pd.notna
isna(x) == x.na
notna(x) == ~x.na

\* A datetime: the calendar day (the ordinal that stands for its
\* "YYYY-MM-DD" text, which orders as the ordinal does) and the time of day.
Timestamp(d, t) == [nat |-> FALSE, day |-> d, tick |-> t]
NaT == [nat |-> TRUE, day |-> 0, tick |-> 0]

\* Line 107: pd.to_datetime(errors="coerce") on the date cells of the model,
\* cell by cell: a cell it cannot parse gives NaT.
to_datetime(cell) ==
    CASE cell = "2024-01-01" -> Timestamp(1, 0)
      [] cell = "2024-01-01 12:00" -> Timestamp(1, 1)
      [] cell = "2024-01-02" -> Timestamp(2, 0)
      [] cell = "2024-01-03" -> Timestamp(3, 0)
      [] OTHER -> NaT

\* Lines 111-112: pd.to_numeric(errors="coerce") on the numeric cells of the
\* model: a finite number, or NaN for a cell it cannot parse.
to_numeric(cell) ==
    CASE cell = "1" -> Float(1)
      [] cell = "2" -> Float(2)
      [] cell = "7" -> Float(7)
      [] cell = "38000" -> Float(38000)
      [] cell = "38500" -> Float(38500)
      [] cell = "39000" -> Float(39000)
      [] cell = "39500" -> Float(39500)
      [] cell = "40000" -> Float(40000)
      [] cell = "41000" -> Float(41000)
      [] cell = "42000" -> Float(42000)
      [] OTHER -> NaN

\* Line 127: d.strftime("%Y-%m-%d")
strftime(d) == d.day

\* The order of sort_values on datetimes.
NotAfter(a, b) == a.day < b.day \/ (a.day = b.day /\ a.tick <= b.tick)

----------------------------------------------------------------------------
(* Tables *)

EmptyTable == [columns |-> <<>>, rows |-> <<>>]

\* df.empty
IsEmpty(t) == Len(t.columns) = 0 \/ Len(t.rows) = 0

ColIndex(t, name) == CHOOSE i \in DOMAIN t.columns : t.columns[i] = name
Cell(t, r, name) == t.rows[r][ColIndex(t, name)]

\* The price cell of a frame that has no price column.
Absent == "<no column>"

\* Lines 103-104: df[keep].copy(); index is the frame's index label, the
\* position of the row in the parsed table.
Keep(t, d, s, p) ==
    [r \in DOMAIN t.rows |->
        [index |-> r,
         date  |-> Cell(t, r, d),
         sth   |-> Cell(t, r, s),
         price |-> IF p # NoColumn THEN Cell(t, r, p) ELSE Absent,
         ma200 |-> None]]

\* Line 107.
ParseDates(frame) ==
    [i \in DOMAIN frame |-> [frame[i] EXCEPT !.date = to_datetime(@)]]

\* A bug line 108 could have: dropna() without subset, which drops a row
\* that misses any value (pd.read_csv reads "" and "n/a" as missing).
DropAnyNa(frame) ==
    SelectSeq(frame, LAMBDA r :
        /\ ~r.date.nat
        /\ notna(to_numeric(r.sth))
        /\ r.price # Absent => notna(to_numeric(r.price)))

\* A change line 108 could have: one row is kept per calendar day.
RECURSIVE DropNaAndDuplicateDays(_)
DropNaAndDuplicateDays(frame) ==
    IF frame = <<>> THEN <<>>
    ELSE LET n == Len(frame)
             front == DropNaAndDuplicateDays(SubSeq(frame, 1, n - 1))
         IN IF \/ frame[n].date.nat
               \/ \E i \in DOMAIN front : front[i].date.day = frame[n].date.day
            THEN front
            ELSE Append(front, frame[n])

\* Line 108: dropna(subset=[date_col])
dropna(frame) == SelectSeq(frame, LAMBDA r : ~r.date.nat)

\* A bug line 108 could have: the rows stay in source order.
Unsorted(frame) == {frame}

\* Line 108: sort_values(date_col).  The default sort is not stable: rows of
\* equal datetime may come out in any order.
sort_values(frame) ==
    LET n == Len(frame)
        orders == {q \in [1..n -> 1..n] :
                      /\ \A i, j \in 1..n : i # j => q[i] # q[j]
                      /\ \A i, j \in 1..n :
                            i < j => NotAfter(frame[q[i]].date, frame[q[j]].date)}
    IN {[i \in 1..n |-> frame[q[i]]] : q \in orders}

\* Lines 110-112.
CoerceNumerics(frame, p) ==
    [i \in DOMAIN frame |->
        [frame[i] EXCEPT !.sth = to_numeric(@),
                         !.price = IF p # NoColumn THEN to_numeric(@) ELSE @]]

\* rolling(window, min_periods).mean() keeps a running count and sum of the
\* non-missing values in the window: each row adds its value and removes the
\* one that leaves the window.
RECURSIVE RollState(_, _, _)
RollState(x, window, i) ==
    IF i = 0 THEN [nobs |-> 0, sum_x |-> 0]
    ELSE LET prev == RollState(x, window, i - 1)
             added == IF notna(x[i])
                      THEN [nobs |-> prev.nobs + 1, sum_x |-> prev.sum_x + x[i].num]
                      ELSE prev
         IN IF i > window /\ notna(x[i - window])
            THEN [nobs |-> added.nobs - 1, sum_x |-> added.sum_x - x[i - window].num]
            ELSE added

rolling_mean(x, window, min_periods) ==
    [i \in DOMAIN x |->
        LET st == RollState(x, window, i) IN
        IF st.nobs >= min_periods /\ st.nobs > 0
        THEN [na |-> FALSE, num |-> st.sum_x, den |-> st.nobs]
        ELSE NaN]

\* A bug line 116 could have: min_periods left at 1.
Ma200MinPeriodsOne(x) == rolling_mean(x, Window, 1)

\* Line 116.
Ma200OfPrices(x) == rolling_mean(x, Window, Window)

\* Lines 115-118.
Ma200Column(frame, p) ==
    IF p # NoColumn
    THEN Ma200OfPrices([i \in DOMAIN frame |-> frame[i].price])
    ELSE [i \in DOMAIN frame |-> None]

WithMa200(frame, p) ==
    LET ma == Ma200Column(frame, p) IN
    [i \in DOMAIN frame |-> [frame[i] EXCEPT !.ma200 = ma[i]]]

\* Lines 102-118: the frames df may be after them.
Derive(t, d, s, p) ==
    {WithMa200(CoerceNumerics(f, p), p) :
        f \in sort_values(dropna(ParseDates(Keep(t, d, s, p))))}

\* A bug lines 128-134 could have: without a price column the price is
\* taken from the metric.
ItemPriceFromMetric(r, p) ==
    [date |-> strftime(r.date),
     sth_realized |-> IF isna(r.sth) THEN None ELSE r.sth,
     price |-> IF p # NoColumn
               THEN (IF notna(r.price) THEN r.price ELSE None)
               ELSE (IF notna(r.sth) THEN r.sth ELSE None),
     ma200 |-> IF p # NoColumn /\ notna(r.ma200) THEN r.ma200 ELSE None]

\* Lines 126-136.
Item(r, p) ==
    [date |-> strftime(r.date),
     sth_realized |-> IF isna(r.sth) THEN None ELSE r.sth,
     price |-> IF p # NoColumn /\ notna(r.price) THEN r.price ELSE None,
     ma200 |-> IF p # NoColumn /\ notna(r.ma200) THEN r.ma200 ELSE None]

\* Lines 120-138.
Records(frame, p) ==
    LET kept == SelectSeq(frame, LAMBDA r : ~r.date.nat) IN
    [i \in DOMAIN kept |-> Item(kept[i], p)]

\* OUT_PATH: no file, or a file holding the JSON array of records.
NoFile == [exists |-> FALSE, records |-> <<>>]
\* Line 141: write_text(json.dumps(out)).
json_dumps(records) == [exists |-> TRUE, records |-> records]

----------------------------------------------------------------------------
(* The inputs of the runs *)

\* OUT_PATH before the run: absent, or the file an earlier run wrote.
PriorFiles ==
    { NoFile,
      json_dumps(<< [date |-> 0, sth_realized |-> Float(7), price |-> None,
                     ma200 |-> None] >>) }

\* What pd.read_csv returns in the runs of the whole pipeline: the example
\* of the specification, a header with no data row, a table with no price
\* column, one with no date column and one with no metric column.
SampleTables ==
    { [columns |-> <<"Date", "Price", "sth_realized_price">>,
       rows |-> << <<"2024-01-01", "40000", "38000">>,
                   <<"2024-01-02", "41000", "38500">>,
                   <<"bad-date", "42000", "39000">>,
                   <<"2024-01-03", "", "39500">> >>],
      [columns |-> <<"Date", "Price", "sth_realized_price">>, rows |-> <<>>],
      [columns |-> <<"time", "value">>,
       rows |-> << <<"2024-01-02", "7">>, <<"2024-01-01", "n/a">> >>],
      [columns |-> <<"Unnamed: 0", "Price", "value">>,
       rows |-> << <<"2024-01-01", "1", "7">> >>],
      [columns |-> <<"Date", "Price">>,
       rows |-> << <<"2024-01-01", "1">> >>] }

\* The texts of at most n characters.
Texts(n) == UNION {[1..k -> Chars] : k \in 0..n}

\* The encoding the normaliser undoes (lines 19-22): each line break becomes
\* the two characters \n, each carriage return \r, and the whole is wrapped
\* in a pair of quotes q.
RECURSIVE Escape(_)
Escape(s) ==
    IF s = <<>> THEN <<>>
    ELSE (CASE Head(s) = LF -> <<BS, "n">>
            [] Head(s) = CR -> <<BS, "r">>
            [] OTHER -> <<Head(s)>>) \o Escape(Tail(s))

Encode(s, q) == <<q>> \o Escape(s) \o <<q>>

\* The header names of the tables given to the column resolver.
ColumnNames ==
    { "Date", "DATE", "date", " date", "time", "Price", "price_usd",
      "STH_Realized_Price", "sth_realized_price", "value", "Unnamed: 0" }

\* The headers pd.read_csv can return: it never returns two columns of the
\* same name.
Headers(n) ==
    UNION {{h \in [1..k -> ColumnNames] :
               \A i, j \in 1..k : i # j => h[i] # h[j]} : k \in 1..n}

PickTables ==
    {[columns |-> h, rows |-> << [i \in DOMAIN h |-> ""] >>] : h \in Headers(MaxCols)}

DateCells == {"bad-date", "2024-01-01", "2024-01-01 12:00", "2024-01-02"}
PriceCells == {"n/a", "1", "2"}
SthCells == {"", "7"}

\* The headers of the tables given to the coercion and derivation stage,
\* with and without a price column, and the rows of at most MaxRows rows of
\* every combination of cells (the tables with a price column leave out the
\* midnight cell of the first day, which keeps their number within reach).
PricedColumns == <<"Date", "Price", "sth_realized_price">>
UnpricedColumns == <<"time", "value">>
PricedRows(n) ==
    [1..n -> (DateCells \ {"2024-01-01"}) \X PriceCells \X SthCells]
UnpricedRows(n) == [1..n -> DateCells \X SthCells]

----------------------------------------------------------------------------
(* main() *)

NoRunError == [kind |-> "none", detail |-> NoError]

Init ==
    /\ pc = "start"
    /\ api_key \in BOOLEAN
    /\ file \in PriorFiles
    /\ prior = file
    /\ url_i = 0
    /\ last_err = NoError
    /\ attempts = <<>>
    /\ raw_text = <<>>
    /\ orig = <<>>
    /\ cleaned = <<>>
    /\ csv = EmptyTable
    /\ df = EmptyTable
    /\ date_col = NoColumn
    /\ price_col = NoColumn
    /\ sth_col = NoColumn
    /\ out = <<>>
    /\ error = NoRunError

\* raise RuntimeError
Raise(kind, detail) ==
    /\ pc' = "failed"
    /\ error' = [kind |-> kind, detail |-> detail]

\* Lines 58-60, the key is missing.
RaiseMissingKey ==
    /\ pc = "start"
    /\ ~api_key
    /\ Raise("missing_key", NoError)
    /\ UNCHANGED <<api_key, file, prior, url_i, last_err, attempts, raw_text,
                   orig, cleaned, csv, df, date_col, price_col, sth_col, out>>

\* Lines 58-62 and 35-42: the key is there, _fetch_csv is entered.
EnterFetch ==
    /\ pc = "start"
    /\ api_key
    /\ pc' = "fetch"
    /\ url_i' = 1
    /\ last_err' = NoError
    /\ UNCHANGED <<api_key, file, prior, attempts, raw_text, orig, cleaned,
                   csv, df, date_col, price_col, sth_col, out, error>>

\* Lines 43-50: the request to the next URL succeeds; its text is returned.
RequestOk ==
    /\ pc = "fetch"
    /\ url_i <= Len(URLS_TO_TRY)
    /\ \E text \in ResponseTexts :
          /\ attempts' = Append(attempts,
                [url |-> URLS_TO_TRY[url_i], result |-> "ok", text |-> text])
          /\ raw_text' = text
    /\ pc' = "fetched"
    /\ UNCHANGED <<api_key, file, prior, url_i, last_err, orig, cleaned, csv,
                   df, date_col, price_col, sth_col, out, error>>

\* Lines 43-52: the request to the next URL fails; the loop goes on.
RequestFails ==
    /\ pc = "fetch"
    /\ url_i <= Len(URLS_TO_TRY)
    /\ \E kind \in FailureKinds :
          /\ attempts' = Append(attempts,
                [url |-> URLS_TO_TRY[url_i], result |-> kind, text |-> <<>>])
          /\ last_err' = RecordErr(last_err, Failure(URLS_TO_TRY[url_i], kind))
    /\ url_i' = url_i + 1
    /\ UNCHANGED <<pc, api_key, file, prior, raw_text, orig, cleaned, csv, df,
                   date_col, price_col, sth_col, out, error>>

\* Line 54: the loop is over.
RaiseAllFailed ==
    /\ pc = "fetch"
    /\ url_i > Len(URLS_TO_TRY)
    /\ Raise("fetch", last_err)
    /\ UNCHANGED <<api_key, file, prior, url_i, last_err, attempts, raw_text,
                   orig, cleaned, csv, df, date_col, price_col, sth_col, out>>

\* Line 63.
CleanResponse ==
    /\ pc = "fetched"
    /\ cleaned' = _clean_csv_text(raw_text)
    /\ pc' = "cleaned"
    /\ UNCHANGED <<api_key, file, prior, url_i, last_err, attempts, raw_text,
                   orig, csv, df, date_col, price_col, sth_col, out, error>>

\* Lines 65-66.
RaiseEmptyResponse ==
    /\ pc = "cleaned"
    /\ cleaned = <<>>
    /\ Raise("empty_response", NoError)
    /\ UNCHANGED <<api_key, file, prior, url_i, last_err, attempts, raw_text,
                   orig, cleaned, csv, df, date_col, price_col, sth_col, out>>

\* Line 68: pd.read_csv returns the table the text holds.
ReadCsv ==
    /\ pc = "cleaned"
    /\ cleaned # <<>>
    /\ \E t \in SampleTables :
          /\ csv' = t
          /\ df' = t
    /\ pc' = "parsed"
    /\ UNCHANGED <<api_key, file, prior, url_i, last_err, attempts, raw_text,
                   orig, cleaned, date_col, price_col, sth_col, out, error>>

\* Line 68: pd.read_csv raises on a text it cannot parse.
RaiseCsvError ==
    /\ pc = "cleaned"
    /\ cleaned # <<>>
    /\ Raise("csv", NoError)
    /\ UNCHANGED <<api_key, file, prior, url_i, last_err, attempts, raw_text,
                   orig, cleaned, csv, df, date_col, price_col, sth_col, out>>

\* Lines 69-71.
RaiseEmptyFrame ==
    /\ pc = "parsed"
    /\ IsEmpty(df)
    /\ Raise("empty_frame", NoError)
    /\ UNCHANGED <<api_key, file, prior, url_i, last_err, attempts, raw_text,
                   orig, cleaned, csv, df, date_col, price_col, sth_col, out>>

\* Lines 76-93.
Picked(t) ==
    LET cols == cols_lower(t.columns) IN
    [date |-> pick(cols, DateNames),
     price |-> pick(cols, PriceNames),
     sth |-> pick(cols, SthNames)]

\* Lines 73-95: the columns are picked, the required ones are there.
ResolveColumns ==
    /\ pc = "parsed"
    /\ ~IsEmpty(df)
    /\ LET c == Picked(df) IN
          /\ ~MissingRequired(c.date, c.price, c.sth)
          /\ date_col' = c.date
          /\ price_col' = c.price
          /\ sth_col' = c.sth
    /\ pc' = "resolved"
    /\ UNCHANGED <<api_key, file, prior, url_i, last_err, attempts, raw_text,
                   orig, cleaned, csv, df, out, error>>

\* A bug main() could have: OUT_PATH is opened for writing before the
\* columns are checked.
RaiseMissingColumnsAfterOpen ==
    /\ pc = "parsed"
    /\ ~IsEmpty(df)
    /\ LET c == Picked(df) IN
          /\ MissingRequired(c.date, c.price, c.sth)
          /\ date_col' = c.date
          /\ price_col' = c.price
          /\ sth_col' = c.sth
    /\ file' = json_dumps(<<>>)
    /\ Raise("columns", NoError)
    /\ UNCHANGED <<api_key, prior, url_i, last_err, attempts, raw_text,
                   orig, cleaned, csv, df, out>>

\* Lines 73-100: the columns are picked, a required one is missing.
RaiseMissingColumns ==
    /\ pc = "parsed"
    /\ ~IsEmpty(df)
    /\ LET c == Picked(df) IN
          /\ MissingRequired(c.date, c.price, c.sth)
          /\ date_col' = c.date
          /\ price_col' = c.price
          /\ sth_col' = c.sth
    /\ Raise("columns", NoError)
    /\ UNCHANGED <<api_key, file, prior, url_i, last_err, attempts, raw_text,
                   orig, cleaned, csv, df, out>>

\* Lines 102-118.
DeriveFrame ==
    /\ pc = "resolved"
    /\ df' \in Derive(df, date_col, sth_col, price_col)
    /\ pc' = "derived"
    /\ UNCHANGED <<api_key, file, prior, url_i, last_err, attempts, raw_text,
                   orig, cleaned, csv, date_col, price_col, sth_col, out, error>>

\* Lines 120-138.
BuildRecords ==
    /\ pc = "derived"
    /\ out' = Records(df, price_col)
    /\ pc' = "built"
    /\ UNCHANGED <<api_key, file, prior, url_i, last_err, attempts, raw_text,
                   orig, cleaned, csv, df, date_col, price_col, sth_col, error>>

\* Lines 140-142.
WriteOutput ==
    /\ pc = "built"
    /\ file' = json_dumps(out)
    /\ pc' = "done"
    /\ UNCHANGED <<api_key, prior, url_i, last_err, attempts, raw_text, orig,
                   cleaned, csv, df, date_col, price_col, sth_col, out, error>>

Next ==
    \/ RaiseMissingKey
    \/ EnterFetch
    \/ RequestOk
    \/ RequestFails
    \/ RaiseAllFailed
    \/ CleanResponse
    \/ RaiseEmptyResponse
    \/ ReadCsv
    \/ RaiseCsvError
    \/ RaiseEmptyFrame
    \/ ResolveColumns
    \/ RaiseMissingColumns
    \/ DeriveFrame
    \/ BuildRecords
    \/ WriteOutput

\* A run of main().
Spec == Init /\ [][Next]_vars

----------------------------------------------------------------------------
(* The stages on the inputs of their own *)

\* The state main() is in once _fetch_csv has returned, on the first URL,
\* the text text.
Fetched(text) ==
    /\ pc = "fetched"
    /\ api_key = TRUE
    /\ file \in PriorFiles
    /\ prior = file
    /\ url_i = 1
    /\ last_err = NoError
    /\ attempts = << [url |-> URLS_TO_TRY[1], result |-> "ok", text |-> text] >>
    /\ raw_text = text
    /\ cleaned = <<>>
    /\ csv = EmptyTable
    /\ df = EmptyTable
    /\ date_col = NoColumn
    /\ price_col = NoColumn
    /\ sth_col = NoColumn
    /\ out = <<>>
    /\ error = NoRunError

\* The normaliser on every encoded text: the response is the encoding of a
\* plain text of at most MaxLen characters.
CleanInit ==
    \E o \in Texts(MaxLen), q \in {DQ, SQ} :
        /\ orig = o
        /\ Fetched(Encode(o, q))

CleanNext == CleanResponse \/ RaiseEmptyResponse

SpecClean == CleanInit /\ [][CleanNext]_vars

\* The state main() is in once pd.read_csv has returned the table t.
Parsed(t) ==
    /\ pc = "parsed"
    /\ api_key = TRUE
    /\ file = NoFile
    /\ prior = file
    /\ url_i = 1
    /\ last_err = NoError
    /\ attempts = << [url |-> URLS_TO_TRY[1], result |-> "ok", text |-> <<"a", LF, "a">>] >>
    /\ raw_text = <<"a", LF, "a">>
    /\ orig = <<>>
    /\ cleaned = <<"a", LF, "a">>
    /\ csv = t
    /\ df = t
    /\ date_col = NoColumn
    /\ price_col = NoColumn
    /\ sth_col = NoColumn
    /\ out = <<>>
    /\ error = NoRunError

\* The column resolver on every header of at most MaxCols columns.
PickInit == \E t \in PickTables : Parsed(t)

PickNext == ResolveColumns \/ RaiseMissingColumns

SpecPick == PickInit /\ [][PickNext]_vars

\* The coercion and derivation stage on every table of at most MaxRows rows.
DataInit ==
    \E n \in 1..MaxRows :
        \/ \E rs \in PricedRows(n) :
              Parsed([columns |-> PricedColumns, rows |-> rs])
        \/ \E rs \in UnpricedRows(n) :
              Parsed([columns |-> UnpricedColumns, rows |-> rs])

DataNext == ResolveColumns \/ DeriveFrame \/ BuildRecords \/ WriteOutput

SpecData == DataInit /\ [][DataNext]_vars

----------------------------------------------------------------------------
(* The output file, C1 *)

\* The source rows whose date parses.
DatedRows ==
    {r \in DOMAIN csv.rows : ~to_datetime(Cell(csv, r, date_col)).nat}

\* C1: the output file is written only as the last step of a run in which
\* every earlier stage succeeded.  Until the run is done, and so after every
\* fatal error, the file is what it was before the run; once the run is done
\* the file is the serialisation of the run's whole record sequence, one
\* record per source row whose date parses.
C1_FileWrittenLast ==
    /\ pc # "done" => file = prior
    /\ pc = "done" =>
          /\ error = NoRunError
          /\ file = json_dumps(out)
          /\ Len(file.records) = Cardinality(DatedRows)

\* C1, witness: a run that found an earlier run's file and failed on the
\* columns.
C1_Witness ==
    /\ pc = "failed"
    /\ error.kind = "columns"
    /\ prior.exists
    /\ file = prior

----------------------------------------------------------------------------
(* _fetch_csv, C2 *)

Failed(a) == a.result \in FailureKinds

\* C2: the URLs are requested in list order, each at most once, and none
\* after one that succeeded; the text returned is that of the first URL that
\* succeeded; _fetch_csv raises only when every URL of the list has failed,
\* and the failure it reports is that of the last URL.
C2_FetchInOrder ==
    /\ Len(attempts) <= Len(URLS_TO_TRY)
    /\ \A i \in DOMAIN attempts :
          /\ attempts[i].url = URLS_TO_TRY[i]
          /\ i < Len(attempts) => Failed(attempts[i])
    /\ pc \notin {"start", "fetch"} /\ error.kind \notin {"missing_key", "fetch"} =>
          /\ attempts # <<>>
          /\ attempts[Len(attempts)].result = "ok"
          /\ raw_text = attempts[Len(attempts)].text
    /\ error.kind = "fetch" =>
          /\ Len(attempts) = Len(URLS_TO_TRY)
          /\ \A i \in DOMAIN attempts : Failed(attempts[i])
          /\ error.detail.url = URLS_TO_TRY[Len(URLS_TO_TRY)]
          /\ error.detail.kind = attempts[Len(attempts)].result

\* C2, witness: both URLs failed, each in its own way.
C2_Witness ==
    /\ error.kind = "fetch"
    /\ Len(attempts) = Len(URLS_TO_TRY)
    /\ attempts[1].result # attempts[Len(attempts)].result

----------------------------------------------------------------------------
(* The emitted records, C3-C6 and C9 *)

Emitted == pc \in {"built", "done"}

\* C3: the emitted records are in ascending order of date, and none has a
\* null date, whatever the order of the rows of the source.
C3_SortedByDate ==
    Emitted =>
        /\ \A i, j \in DOMAIN out : i < j => out[i].date <= out[j].date
        /\ \A i \in DOMAIN out : out[i].date # strftime(NaT)

\* C3, witness: the source held a row with no date and two dated rows, the
\* later first.
C3_Witness ==
    /\ pc = "done"
    /\ \E r \in DOMAIN csv.rows : r \notin DatedRows
    /\ \E r1, r2 \in DatedRows :
          /\ r1 < r2
          /\ to_datetime(Cell(csv, r1, date_col)).day
                > to_datetime(Cell(csv, r2, date_col)).day
    /\ Len(file.records) >= 2

\* C4 as stated: no two emitted records carry the same date.
C4_DatesUnique ==
    Emitted => \A i, j \in DOMAIN out : i # j => out[i].date # out[j].date

\* The source rows whose date parses to the calendar day day.
RowsOfDay(day) ==
    {r \in DatedRows : strftime(to_datetime(Cell(csv, r, date_col))) = day}

\* C4, amended: nothing is deduplicated.  Each date is carried by as many
\* emitted records as there are source rows whose date parses to that
\* calendar day, so the dates are unique exactly when no two source rows fall
\* on the same day.
C4_DatesAsInSource ==
    Emitted =>
        /\ \A i \in DOMAIN out :
              Cardinality({j \in DOMAIN out : out[j].date = out[i].date})
                 = Cardinality(RowsOfDay(out[i].date))
        /\ \A r \in DatedRows :
              \E i \in DOMAIN out :
                 out[i].date = strftime(to_datetime(Cell(csv, r, date_col)))

\* C4, witness: two source rows of the same day, at different times, are
\* both emitted.
C4_Witness ==
    /\ pc = "done"
    /\ \E i, j \in DOMAIN out :
          /\ i # j
          /\ out[i].date = out[j].date
          /\ df[i].date # df[j].date

\* The sum of the prices of the records a..b.
RECURSIVE SumPrices(_, _, _)
SumPrices(recs, a, b) ==
    IF a > b THEN 0 ELSE recs[a].price.num + SumPrices(recs, a + 1, b)

\* The Window prices ending at record i are all there.
FullWindow(recs, i) ==
    /\ i >= Window
    /\ \A k \in (i - Window + 1)..i : recs[k].price # None

\* C5: with a price column, the ma200 of the record at position i is the
\* mean of the prices at the positions i-Window+1..i if and only if all of
\* them are non-null, and null otherwise.
C5_TrailingMean ==
    Emitted /\ price_col # NoColumn =>
        \A i \in DOMAIN out :
            IF FullWindow(out, i)
            THEN /\ out[i].ma200 # None
                 /\ out[i].ma200.num * Window
                       = SumPrices(out, i - Window + 1, i) * out[i].ma200.den
            ELSE out[i].ma200 = None

\* C5, witness: the window filled and then slid by one record, to another
\* mean.
C5_Witness ==
    /\ pc = "done"
    /\ price_col # NoColumn
    /\ Len(out) > Window
    /\ out[Window].ma200 # None
    /\ out[Window + 1].ma200 # None
    /\ out[Window].ma200 # out[Window + 1].ma200

\* What a numeric cell is emitted as.
Emit(cell) == IF isna(to_numeric(cell)) THEN None ELSE to_numeric(cell)

\* C6: a source row is emitted if and only if its date parses; a row whose
\* metric or price does not parse is emitted with that field null and its
\* other fields as in the source; there are as many records as source rows
\* whose date parses.
C6_RowErrors ==
    Emitted =>
        /\ Len(out) = Cardinality(DatedRows)
        /\ Len(out) = Len(df)
        /\ \A i \in DOMAIN df : df[i].index \in DatedRows
        /\ \A r \in DatedRows :
              \E i \in DOMAIN out :
                 /\ df[i].index = r
                 /\ \A j \in DOMAIN df : df[j].index = r => j = i
                 /\ out[i].date = strftime(to_datetime(Cell(csv, r, date_col)))
                 /\ out[i].sth_realized = Emit(Cell(csv, r, sth_col))
                 /\ price_col # NoColumn =>
                       out[i].price = Emit(Cell(csv, r, price_col))

\* C6, witness: the source held a row with no date, and dated rows one with
\* no metric, one with no price.
C6_Witness ==
    /\ pc = "done"
    /\ price_col # NoColumn
    /\ \E r \in DOMAIN csv.rows : r \notin DatedRows
    /\ \E i, j \in DOMAIN out :
          /\ out[i].sth_realized = None /\ out[i].price # None
          /\ out[j].price = None /\ out[j].sth_realized # None

\* C9: with no price column, every record has price null and ma200 null.
C9_NoPriceAllNull ==
    Emitted /\ price_col = NoColumn =>
        \A i \in DOMAIN out : out[i].price = None /\ out[i].ma200 = None

\* C9, witness: no price column, and more rows than the window, all with a
\* metric.
C9_Witness ==
    /\ pc = "done"
    /\ price_col = NoColumn
    /\ Len(out) > Window
    /\ \A i \in DOMAIN out : out[i].sth_realized # None

----------------------------------------------------------------------------
(* Column resolution, C7 and C8 *)

\* The name a header column is compared by: trimmed and in lower case.
Fold(c) == str_lower(str_strip(c))

\* The candidate names of a role that some header column folds to.
Present(columns, names) ==
    {j \in DOMAIN names : \E i \in DOMAIN columns : Fold(columns[i]) = names[j]}

\* The earliest candidate of a role in the header, if any.
Earliest(columns, names) ==
    LET js == Present(columns, names) IN
    names[CHOOSE j \in js : \A k \in js : j <= k]

\* The position of a column in the header, 0 for no column.
Position(columns, c) ==
    IF c = NoColumn THEN 0 ELSE CHOOSE i \in DOMAIN columns : columns[i] = c

PickedAt(columns) ==
    LET c == Picked([columns |-> columns]) IN
    [date |-> Position(columns, c.date),
     price |-> Position(columns, c.price),
     sth |-> Position(columns, c.sth)]

\* The header in every order of its columns.
Reordered(columns) ==
    LET k == Len(columns) IN
    {[i \in 1..k |-> columns[q[i]]] :
        q \in {f \in [1..k -> 1..k] : \A i, j \in 1..k : i # j => f[i] # f[j]}}

\* The header with the spelling of its names changed: each column folds to
\* what it folded to, and no two columns have the same name.
Respelled(columns) ==
    LET k == Len(columns)
        pool == {c \in ColumnNames :
                    \E i \in 1..k : Fold(c) = Fold(columns[i])}
    IN {h \in [1..k -> pool] :
           /\ \A i \in 1..k : Fold(h[i]) = Fold(columns[i])
           /\ \A i, j \in 1..k : i # j => h[i] # h[j]}

\* No two header columns fold to the same name.
NoCollision(columns) ==
    \A i, j \in DOMAIN columns : i # j => Fold(columns[i]) # Fold(columns[j])

Resolution == pc \in {"resolved", "failed"} /\ error.kind \in {"none", "columns"}

\* A role is resolved to a column that folds to its earliest candidate in
\* the header, or to no column when the header has none of its candidates.
ResolvedTo(col, names) ==
    IF Present(csv.columns, names) = {}
    THEN col = NoColumn
    ELSE /\ \E i \in DOMAIN csv.columns : csv.columns[i] = col
         /\ Fold(col) = Earliest(csv.columns, names)

\* C7 as stated: each role is resolved to the header column that folds to
\* its earliest candidate in the header, and the result changes neither
\* with the order of the header columns nor with the case of their names.
C7_OrderAndCaseIndependent ==
    Resolution =>
        /\ ResolvedTo(date_col, DateNames)
        /\ ResolvedTo(price_col, PriceNames)
        /\ ResolvedTo(sth_col, SthNames)
        /\ \A h \in Reordered(csv.columns) :
              Picked([columns |-> h])
                 = [date |-> date_col, price |-> price_col, sth |-> sth_col]
        /\ \A h \in Respelled(csv.columns) : PickedAt(h) = PickedAt(csv.columns)

\* C7, amended: each role is resolved to a header column that folds (trimmed,
\* lower case) to its earliest candidate in the header, and of several such
\* columns to the last one; the result does not change with the spelling of
\* the names, and does not change with the order of the columns provided no
\* two columns fold to the same name.
C7_LastOfEarliestCandidate ==
    Resolution =>
        /\ ResolvedTo(date_col, DateNames)
        /\ ResolvedTo(price_col, PriceNames)
        /\ ResolvedTo(sth_col, SthNames)
        /\ \A c \in {date_col, price_col, sth_col} \ {NoColumn} :
              \A i \in DOMAIN csv.columns :
                 Fold(csv.columns[i]) = Fold(c)
                    => i <= Position(csv.columns, c)
        /\ \A h \in Respelled(csv.columns) : PickedAt(h) = PickedAt(csv.columns)
        /\ NoCollision(csv.columns) =>
              \A h \in Reordered(csv.columns) :
                 Picked([columns |-> h])
                    = [date |-> date_col, price |-> price_col, sth |-> sth_col]

\* C7, witness: the header STH_Realized_Price is resolved to the metric,
\* and DATE to the date although the header has a time column too.
C7_Witness ==
    /\ pc = "resolved"
    /\ sth_col = "STH_Realized_Price"
    /\ date_col = "DATE"
    /\ \E i \in DOMAIN csv.columns : csv.columns[i] = "time"
    /\ Position(csv.columns, sth_col) < Position(csv.columns, date_col)

\* The header has a column of the role.
HasRole(columns, names) == Present(columns, names) # {}

\* C8: a run that reaches column resolution fails on the columns if and only
\* if the date role or the metric role is unresolved; the price role alone
\* never makes it fail.
C8_RequiredColumns ==
    Resolution =>
        /\ error.kind = "columns" <=>
              \/ ~HasRole(csv.columns, DateNames)
              \/ ~HasRole(csv.columns, SthNames)
        /\ pc = "resolved" <=>
              /\ HasRole(csv.columns, DateNames)
              /\ HasRole(csv.columns, SthNames)
        /\ date_col = NoColumn <=> ~HasRole(csv.columns, DateNames)
        /\ sth_col = NoColumn <=> ~HasRole(csv.columns, SthNames)
        /\ price_col = NoColumn <=> ~HasRole(csv.columns, PriceNames)

\* C8, witness: the run went on with no price column.
C8_Witness ==
    /\ pc = "resolved"
    /\ price_col = NoColumn
    /\ ~HasRole(csv.columns, PriceNames)

----------------------------------------------------------------------------
(* The normaliser, C10 *)

Cleaned == pc \in {"cleaned", "failed"}

\* C10 as stated, in both its readings: the normaliser gives for the encoded
\* text what it gives for the plain text, or the plain text itself.
C10_SameAsPlain ==
    Cleaned => cleaned = _clean_csv_text(orig) \/ cleaned = orig

\* C10, amended: for the encoding of a plain text O the normaliser gives O
\* with its surrounding whitespace trimmed and every \n and \r decoded, those
\* O held already included; that is what it gives for O itself if and only if
\* the trimmed O is not wrapped in a matching pair of quotes, of which the
\* normaliser would strip O.
C10_RoundTrip ==
    Cleaned =>
        /\ cleaned = strip(replace(replace(orig, BS, "n", LF), BS, "r", CR))
        /\ cleaned = _clean_csv_text(orig) <=> ~IsQuoted(strip(orig))

\* C10, witness: a plain text of two lines comes back as it was.
C10_Witness ==
    /\ pc = "cleaned"
    /\ Len(orig) = MaxLen
    /\ orig[2] \in {LF, CR}
    /\ raw_text # orig
    /\ cleaned = orig

====
